---- MODULE Spec2Model ----
(***************************************************************************)
(* Render passes of Falcor-Experiments: FocalGuiding (ray tracing),        *)
(* GuidedRayViz and MyTestPass (wireframe raster).  One RenderPass object  *)
(* of one of the three classes is driven by the host through setScene and  *)
(* execute.  The passes share no state in this repository, so a behaviour  *)
(* follows one object; cls is its class.                                   *)
(*                                                                         *)
(* Host objects (programs, binding tables, program vars, buffers) are      *)
(* records carrying the id the device gave them (0 is the null reference)  *)
(* and what they were created from.  Every host call a handler makes is    *)
(* appended, in program order, to the events of the frame record.          *)
(* Density weights are floats in the source; they are kept in tenths       *)
(* (0.5f is 5, 0.9f is 9, 1.0f is 10).                                     *)
(***************************************************************************)
EXTENDS Integers, Sequences, FiniteSets

\* ---- bounds of the model
NumScenes == 2      \* distinct scenes the host may attach
MaxObjects == 8     \* device objects created in one behaviour
MaxRays == 1        \* largest 'gGuidedRaysSize' the dictionary holds
MaxDim == 2         \* largest width and height of the frame

\* ---- program constants
kDefaultGuidedRaysSize == 10

VARIABLES
    cls,              \* class of the pass object
    mpScene,          \* ref<Scene> mpScene (0 is null)
    mTracer,          \* FocalGuiding: pProgram, pBindingTable, pVars
    mNodes,           \* FocalGuiding: density grid buffer
    mpProgram,        \* raster passes: graphics program
    mpVars,           \* raster passes: program vars
    mGuidedRaysSize,  \* GuidedRayViz members read from the dictionary
    mGuidedRays,
    mComputeRays,
    nextId,           \* id the device gives to the next object it creates
    calls,            \* the last call and the two before it, oldest first
    frame             \* what the last call did

vars == <<cls, mpScene, mTracer, mNodes, mpProgram, mpVars, mGuidedRaysSize,
          mGuidedRays, mComputeRays, nextId, calls, frame>>

Classes == {"FocalGuiding", "GuidedRayViz", "MyTestPass"}

NullScene == 0
Scenes == 1..NumScenes

NullProgram == [id |-> 0, desc |-> 0, defines |-> {}]
NullTable == [id |-> 0, scene |-> 0]
NullVars == [id |-> 0, program |-> 0, table |-> 0, reflector |-> {}]
NullBuffer == [id |-> 0, data |-> <<>>]

\* ---- host data and helpers

\* Scene::getSceneDefines: one define every scene sets, to a value of its own,
\* and one define only this scene sets.
SceneDefines(s) ==
    { [name |-> <<"SCENE_COMMON", 0>>, value |-> s],
      [name |-> <<"SCENE_FEATURE", s>>, value |-> 1] }

\* Program::addDefines: add each define, replacing the value of a name already set.
AddDefines(defines, new) ==
    { d \in defines : \A n \in new : n.name # d.name } \cup new

\* One host call made by a handler, as recorded in frame.events.
Event(kind, name, args) == [kind |-> kind, name |-> name, args |-> args]

\* Outputs declared in reflect.
FocalGuiding_kOutputChannels == <<[name |-> "color", texname |-> "gOutputColor"]>>
FocalGuiding_kInputChannels ==
    << [name |-> "vbuffer", texname |-> "gVBuffer", optional |-> FALSE],
       [name |-> "viewW", texname |-> "gViewW", optional |-> TRUE] >>

reflect(c) ==
    IF c = "FocalGuiding"
    THEN { FocalGuiding_kOutputChannels[i].name :
               i \in 1..Len(FocalGuiding_kOutputChannels) }
    ELSE { "output" }

\* The frame's inputs; a field a class does not read keeps its value here.
NoRenderData ==
    [geometryChanged |-> FALSE, viewW |-> FALSE, dimX |-> 0, dimY |-> 0,
     gComputeRays |-> FALSE, gGuidedRays |-> 0, gGuidedRaysSize |-> 0]

FocalGuiding_RenderData ==
    { [NoRenderData EXCEPT !.geometryChanged = g, !.viewW = v, !.dimX = x, !.dimY = y] :
          g \in BOOLEAN, v \in BOOLEAN, x \in 1..MaxDim, y \in 1..MaxDim }

\* 'gGuidedRays' is null (0) or the handle of the producer's buffer (1).
GuidedRayViz_RenderData ==
    { [NoRenderData EXCEPT !.gComputeRays = c, !.gGuidedRays = b, !.gGuidedRaysSize = n] :
          c \in BOOLEAN, b \in {0, 1}, n \in 0..MaxRays }

\* The call now entered, appended to the two before it; ids is nextId on entry.
Remember(op, scene) ==
    LET all == Append(calls, [op |-> op, scene |-> scene, ids |-> nextId])
    IN  IF Len(all) > 3 THEN Tail(all) ELSE all

\* What a call did: its result ("ok", "error" for a thrown RuntimeError,
\* "fault" for a crash), the host calls it made, in order, and its inputs.
Frame(op, result, events, rd) ==
    [op |-> op, result |-> result, events |-> events, rd |-> rd]

\* ---- FocalGuiding

\* getValidResourceDefines over the input and the output channels.
FocalGuiding_validResourceDefines(rd) ==
    { [name |-> <<"is_valid_gVBuffer", 0>>, value |-> 1],
      [name |-> <<"is_valid_gViewW", 0>>, value |-> IF rd.viewW THEN 1 ELSE 0],
      [name |-> <<"is_valid_gOutputColor", 0>>, value |-> 1] }

FocalGuiding_initDensities ==
    << [childIndex |-> 0, placeholder |-> 0, density |-> 5],
       [childIndex |-> 0, placeholder |-> 0, density |-> 9],
       [childIndex |-> 0, placeholder |-> 0, density |-> 5],
       [childIndex |-> 0, placeholder |-> 0, density |-> 9],
       [childIndex |-> 0, placeholder |-> 0, density |-> 5],
       [childIndex |-> 0, placeholder |-> 0, density |-> 9],
       [childIndex |-> 0, placeholder |-> 0, density |-> 5],
       [childIndex |-> 0, placeholder |-> 0, density |-> 10] >>

\* Faulty variant: the vars survive a change of scene (C10 fails under it).
FocalGuiding_clearTracer_keepVars(t) ==
    [t EXCEPT !.pProgram = NullProgram, !.pBindingTable = NullTable]

\* setScene, "Clear data for previous scene".
FocalGuiding_clearTracer(t) ==
    [pProgram |-> NullProgram, pBindingTable |-> NullTable, pVars |-> NullVars]

\* Faulty variant: the geometry check is dropped (C5 fails under it).
FocalGuiding_geometryChanged_ignored(rd) == FALSE

\* is_set(mpScene->getUpdates(), Scene::UpdateFlags::GeometryChanged)
FocalGuiding_geometryChanged(rd) == rd.geometryChanged

\* Faulty variant: width and height exchanged (C8 fails under it).
FocalGuiding_dispatchDims_swapped(rd) == <<rd.dimY, rd.dimX, 1>>

\* uint3(targetDim, 1) with targetDim = renderData.getDefaultTextureDims()
FocalGuiding_dispatchDims(rd) == <<rd.dimX, rd.dimY, 1>>

\* The vars and the buffer prepareVars creates from the tracer's program and table.
FocalGuiding_prepareVars(t) ==
    [pVars |-> [id |-> nextId, program |-> t.pProgram.id, table |-> t.pBindingTable.id,
                reflector |-> t.pProgram.defines],
     mNodes |-> [id |-> nextId + 1, data |-> <<FocalGuiding_initDensities>>],
     events |-> << Event("createVars", "", <<nextId, t.pProgram.id, t.pBindingTable.id>>),
                   Event("createStructuredBuffer", "gNodes", <<nextId + 1>>) >>]

\* The custom-primitive check of setScene only logs a warning.
FocalGuiding_setScene(pScene) ==
    /\ cls = "FocalGuiding"
    /\ pScene # NullScene => nextId + 1 <= MaxObjects
    /\ LET cleared == FocalGuiding_clearTracer(mTracer)
       IN  mTracer' =
               IF pScene # NullScene
               THEN [cleared EXCEPT
                        !.pBindingTable = [id |-> nextId, scene |-> pScene],
                        !.pProgram = [id |-> nextId + 1, desc |-> pScene,
                                      defines |-> SceneDefines(pScene)]]
               ELSE cleared
    /\ mpScene' = pScene
    /\ nextId' = IF pScene # NullScene THEN nextId + 2 ELSE nextId
    /\ calls' = Remember("setScene", pScene)
    /\ frame' = Frame("setScene", "ok", <<>>, NoRenderData)
    /\ UNCHANGED <<cls, mNodes, mpProgram, mpVars, mGuidedRaysSize, mGuidedRays, mComputeRays>>

\* 'color' is a required output, so renderData.getTexture gives a texture.
\* The light-collection request and the depth-of-field warning change nothing
\* the pass owns.
FocalGuiding_execute(rd) ==
    /\ cls = "FocalGuiding"
    /\ calls' = Remember("execute", mpScene)
    /\ UNCHANGED <<cls, mpScene, mpProgram, mpVars, mGuidedRaysSize, mGuidedRays, mComputeRays>>
    /\ IF mpScene = NullScene
       THEN /\ frame' = Frame("execute", "ok",
                   [i \in 1..Len(FocalGuiding_kOutputChannels) |->
                       Event("clearTexture", FocalGuiding_kOutputChannels[i].name, <<>>)], rd)
            /\ UNCHANGED <<mTracer, mNodes, nextId>>
       ELSE IF FocalGuiding_geometryChanged(rd)
       THEN /\ frame' = Frame("execute", "error", <<Event("throw", "RuntimeError", <<>>)>>, rd)
            /\ UNCHANGED <<mTracer, mNodes, nextId>>
       ELSE LET create == mTracer.pVars = NullVars
                withDefines == [mTracer EXCEPT !.pProgram.defines =
                                   AddDefines(@, FocalGuiding_validResourceDefines(rd))]
                prepared == FocalGuiding_prepareVars(withDefines)
                tracer == IF create THEN [withDefines EXCEPT !.pVars = prepared.pVars]
                          ELSE withDefines
                nodes == IF create THEN prepared.mNodes ELSE mNodes
            IN  /\ create => nextId + 1 <= MaxObjects
                /\ mTracer' = tracer
                /\ mNodes' = nodes
                /\ nextId' = IF create THEN nextId + 2 ELSE nextId
                /\ frame' = Frame("execute", "ok",
                       << Event("addDefines", "", <<tracer.pProgram.id>>) >>
                       \o (IF create THEN prepared.events ELSE <<>>)
                       \o << Event("setConst", "gNodesSize", <<tracer.pVars.id>>),
                             Event("setConst", "gSceneBoundsMin", <<tracer.pVars.id>>),
                             Event("setConst", "gSceneBoundsMax", <<tracer.pVars.id>>),
                             Event("dictWrite", "gNodes", <<nodes.id>>) >>
                       \o [i \in 1..Len(FocalGuiding_kInputChannels) |->
                              Event("bind", FocalGuiding_kInputChannels[i].texname,
                                    <<tracer.pVars.id>>)]
                       \o [i \in 1..Len(FocalGuiding_kOutputChannels) |->
                              Event("bind", FocalGuiding_kOutputChannels[i].texname,
                                    <<tracer.pVars.id>>)]
                       \o << Event("bindBuffer", "gNodes", <<tracer.pVars.id, nodes.id>>),
                             Event("raytrace", "",
                                   <<tracer.pProgram.id, tracer.pVars.id>>
                                   \o FocalGuiding_dispatchDims(rd)) >>,
                       rd)

\* ---- GuidedRayViz

\* Faulty variant: no early return on a null scene (C2 fails under it).
GuidedRayViz_noScene_ignored(scene) == FALSE

\* execute, "if (!mpScene) return;"
GuidedRayViz_noScene(scene) == scene = NullScene

\* Faulty variant: existing vars are kept across setScene (C3 fails under it).
GuidedRayViz_newVars_reused(program) ==
    IF mpVars.id # 0 THEN mpVars
    ELSE [id |-> nextId, program |-> program.id, table |-> 0, reflector |-> program.defines]

\* setScene: ProgramVars::create(mpDevice, mpProgram->getReflector())
GuidedRayViz_newVars(program) ==
    [id |-> nextId, program |-> program.id, table |-> 0, reflector |-> program.defines]

\* Faulty variant: the handle is not tested (C7 fails under it).
GuidedRayViz_shouldGenerate_flagOnly(computeRays, guidedRays) == computeRays

\* execute, "if (mComputeRays && mGuidedRays)"
GuidedRayViz_shouldGenerate(computeRays, guidedRays) == computeRays /\ guidedRays # 0

\* Faulty variant: "i <= mGuidedRaysSize" (C6 fails under it).
GuidedRayViz_loopCount_inclusive(size) == size + 1

\* generateRaysGeometry: iterations of "for (uint i = 0; i < mGuidedRaysSize; ++i)"
GuidedRayViz_loopCount(size) == size

\* generateRaysGeometry with the members as given: the vector getElements(0, size)
\* returns holds size records; iteration i reads rayNodes[i] and prints it.
GuidedRayViz_generateRaysGeometry(guidedRays, size) ==
    LET rayNodes == [k \in 1..size |-> [buffer |-> guidedRays, element |-> k - 1]]
        n == GuidedRayViz_loopCount(size)
    IN  [events |-> << Event("getElements", "gGuidedRays", <<0, size>>) >>
                    \o [k \in 1..n |-> Event("rayLine", "", <<k - 1>>)],
         decoded |-> Len(rayNodes),
         outOfRange |-> \E k \in 1..n : k - 1 >= Len(rayNodes)]

GuidedRayViz_setScene(pScene) ==
    /\ cls = "GuidedRayViz"
    /\ nextId <= MaxObjects
    /\ mpScene' = pScene
    /\ mpProgram' = IF pScene # NullScene
                    THEN [mpProgram EXCEPT !.defines = AddDefines(@, SceneDefines(pScene))]
                    ELSE mpProgram
    /\ mpVars' = GuidedRayViz_newVars(mpProgram')
    /\ nextId' = nextId + 1
    /\ calls' = Remember("setScene", pScene)
    /\ frame' = Frame("setScene", "ok", <<>>, NoRenderData)
    /\ UNCHANGED <<cls, mTracer, mNodes, mGuidedRaysSize, mGuidedRays, mComputeRays>>

\* Past the early return mpScene is non-null, so the second "if (mpScene)" is taken.
GuidedRayViz_execute(rd) ==
    /\ cls = "GuidedRayViz"
    /\ calls' = Remember("execute", mpScene)
    /\ UNCHANGED <<cls, mpScene, mTracer, mNodes, mpProgram, mpVars, nextId>>
    /\ IF GuidedRayViz_noScene(mpScene)
       THEN /\ frame' = Frame("execute", "ok", <<>>, rd)
            /\ UNCHANGED <<mGuidedRaysSize, mGuidedRays, mComputeRays>>
       ELSE LET generate == GuidedRayViz_shouldGenerate(rd.gComputeRays, rd.gGuidedRays)
                gen == GuidedRayViz_generateRaysGeometry(rd.gGuidedRays, rd.gGuidedRaysSize)
                read == << Event("dictRead", "gGuidedRaysSize", <<rd.gGuidedRaysSize>>),
                           Event("dictRead", "gGuidedRays", <<rd.gGuidedRays>>),
                           Event("dictRead", "gComputeRays", <<>>) >>
                         \o (IF generate THEN gen.events ELSE <<>>)
                draw == << Event("clearFbo", "output", <<>>),
                           Event("setFbo", "output", <<>>),
                           Event("setConst", "gColor", <<mpVars.id>>),
                           Event("rasterize", "", <<mpProgram.id, mpVars.id>>) >>
            IN  /\ mGuidedRaysSize' = rd.gGuidedRaysSize
                /\ mGuidedRays' = rd.gGuidedRays
                /\ mComputeRays' = rd.gComputeRays
                \* Reading past the end of rayNodes is undefined: the frame may
                \* stop there or go on with whatever was read.
                /\ \E outcome \in (IF generate /\ gen.outOfRange
                                   THEN {"fault", "ok"} ELSE {"ok"}) :
                       frame' = Frame("execute", outcome,
                                      IF outcome = "fault" THEN read ELSE read \o draw, rd)

\* ---- MyTestPass

\* execute, "if (mpScene)"
MyTestPass_hasScene(scene) == scene # NullScene

\* setScene: ProgramVars::create(mpDevice, mpProgram->getReflector())
MyTestPass_newVars(program) ==
    [id |-> nextId, program |-> program.id, table |-> 0, reflector |-> program.defines]

MyTestPass_setScene(pScene) ==
    /\ cls = "MyTestPass"
    /\ nextId <= MaxObjects
    /\ mpScene' = pScene
    /\ mpProgram' = IF pScene # NullScene
                    THEN [mpProgram EXCEPT !.defines = AddDefines(@, SceneDefines(pScene))]
                    ELSE mpProgram
    /\ mpVars' = MyTestPass_newVars(mpProgram')
    /\ nextId' = nextId + 1
    /\ calls' = Remember("setScene", pScene)
    /\ frame' = Frame("setScene", "ok", <<>>, NoRenderData)
    /\ UNCHANGED <<cls, mTracer, mNodes, mGuidedRaysSize, mGuidedRays, mComputeRays>>

MyTestPass_execute ==
    /\ cls = "MyTestPass"
    /\ calls' = Remember("execute", mpScene)
    /\ frame' = Frame("execute", "ok",
           << Event("clearFbo", "output", <<>>),
              Event("setFbo", "output", <<>>) >>
           \o (IF MyTestPass_hasScene(mpScene)
               THEN << Event("setConst", "gColor", <<mpVars.id>>),
                       Event("rasterize", "", <<mpProgram.id, mpVars.id>>) >>
               ELSE <<>>),
           NoRenderData)
    /\ UNCHANGED <<cls, mpScene, mTracer, mNodes, mpProgram, mpVars, mGuidedRaysSize,
                   mGuidedRays, mComputeRays, nextId>>

\* ---- the pass object after construction, and the host's calls

\* The raster passes' constructors create the graphics program (id 1).
Init ==
    /\ cls \in Classes
    /\ mpScene = NullScene
    /\ mTracer = [pProgram |-> NullProgram, pBindingTable |-> NullTable, pVars |-> NullVars]
    /\ mNodes = NullBuffer
    /\ mpProgram = IF cls = "FocalGuiding" THEN NullProgram
                   ELSE [id |-> 1, desc |-> 0, defines |-> {}]
    /\ mpVars = NullVars
    /\ mGuidedRaysSize = IF cls = "GuidedRayViz" THEN kDefaultGuidedRaysSize ELSE 0
    /\ mGuidedRays = 0
    /\ mComputeRays = (cls = "GuidedRayViz")
    /\ nextId = IF cls = "FocalGuiding" THEN 1 ELSE 2
    /\ calls = <<>>
    /\ frame = Frame("construct", "ok", <<>>, NoRenderData)

Next ==
    \/ \E pScene \in Scenes \cup {NullScene} : FocalGuiding_setScene(pScene)
    \/ \E rd \in FocalGuiding_RenderData : FocalGuiding_execute(rd)
    \/ \E pScene \in Scenes \cup {NullScene} : GuidedRayViz_setScene(pScene)
    \/ \E rd \in GuidedRayViz_RenderData : GuidedRayViz_execute(rd)
    \/ \E pScene \in Scenes \cup {NullScene} : MyTestPass_setScene(pScene)
    \/ MyTestPass_execute

Spec == Init /\ [][Next]_vars

\* ---- reading the frame record

EventsOfKind(kinds) == { i \in 1..Len(frame.events) : frame.events[i].kind \in kinds }

Draws == EventsOfKind({"raytrace", "rasterize"})

\* Host calls that go through the program, the binding table or the vars.
PipelineKinds ==
    {"addDefines", "createVars", "createStructuredBuffer", "setConst", "bind",
     "bindBuffer", "raytrace", "rasterize"}

\* Host calls that bind or clear a frame resource or write a per-frame constant.
SetupKinds == {"clearTexture", "clearFbo", "setFbo", "bind", "bindBuffer", "setConst"}

Cleared(output) ==
    \E i \in EventsOfKind({"clearTexture", "clearFbo"}) : frame.events[i].name = output

ExecutedWithoutScene == frame.op = "execute" /\ mpScene = NullScene

ExecutedWithScene == frame.op = "execute" /\ mpScene # NullScene

\* The program and the vars the pass would hand to its draw or dispatch call.
CurrentProgram == IF cls = "FocalGuiding" THEN mTracer.pProgram ELSE mpProgram

CurrentVars == IF cls = "FocalGuiding" THEN mTracer.pVars ELSE mpVars

SceneDefinesIn(defines) ==
    { d \in defines : d.name[1] \in {"SCENE_COMMON", "SCENE_FEATURE"} }

\* The last three calls were setScene(A), setScene(B), execute with A, B non-null.
TwoScenesThenExecute ==
    /\ Len(calls) >= 3
    /\ LET n == Len(calls)
       IN  /\ calls[n - 2].op = "setScene" /\ calls[n - 2].scene # NullScene
           /\ calls[n - 1].op = "setScene" /\ calls[n - 1].scene # NullScene
           /\ calls[n].op = "execute"
    /\ frame.result = "ok"

\* ---- C1
\* C1: an execute made while the scene is null clears every output the pass
\* declares in reflect and issues no rasterize or raytrace call.
C1_NullSceneClearsOutputs ==
    ExecutedWithoutScene =>
        /\ \A output \in reflect(cls) : Cleared(output)
        /\ Draws = {}

\* ---- C2
\* C2: an execute made after the scene was detached goes through none of the
\* pipeline objects: no call on a program, binding table or vars and no draw;
\* in FocalGuiding the program, the binding table and the vars are all null.
C2_DetachedExecuteTouchesNoPipeline ==
    ExecutedWithoutScene =>
        /\ EventsOfKind(PipelineKinds) = {}
        /\ cls = "FocalGuiding" =>
               /\ mTracer.pProgram = NullProgram
               /\ mTracer.pBindingTable = NullTable
               /\ mTracer.pVars = NullVars

\* setScene(S) with S non-null, then setScene(null), then execute: per class.
C2_Witness ==
    /\ cls = "GuidedRayViz"
    /\ Len(calls) >= 3
    /\ calls[Len(calls) - 2].op = "setScene" /\ calls[Len(calls) - 2].scene # NullScene
    /\ calls[Len(calls) - 1].op = "setScene" /\ calls[Len(calls) - 1].scene = NullScene
    /\ calls[Len(calls)].op = "execute"
    /\ ExecutedWithoutScene

\* ---- C3
\* C3 as stated: after setScene(A), setScene(B), both non-null, the program and
\* the vars the next execute uses are built for B only: the program object was
\* created for B, holds exactly B's scene defines, and the vars were created
\* after setScene(B) from that program.
C3_RebuiltForSecondSceneOnly ==
    (TwoScenesThenExecute /\ calls[Len(calls) - 2].scene # calls[Len(calls) - 1].scene) =>
        LET b == calls[Len(calls) - 1]
        IN  /\ CurrentProgram.id >= b.ids
            /\ SceneDefinesIn(CurrentProgram.defines) = SceneDefines(b.scene)
            /\ CurrentVars.id >= b.ids
            /\ CurrentVars.program = CurrentProgram.id

\* C3 amended: after setScene(A), setScene(B), both non-null, the vars the next
\* execute uses were created at or after setScene(B) from the current program,
\* and the draw or dispatch uses that program and those vars.  In FocalGuiding
\* the program and the binding table were created by setScene(B) for B and hold
\* B's scene defines only.  In the raster passes the program is the one the
\* constructor created; it holds B's scene defines and every define of A that B
\* does not set, and the vars reflect that define set.
C3_VarsRebuiltProgramPerClass ==
    TwoScenesThenExecute =>
        LET a == calls[Len(calls) - 2]
            b == calls[Len(calls) - 1]
        IN  /\ CurrentVars.id >= b.ids
            /\ CurrentVars.program = CurrentProgram.id
            /\ \A i \in Draws :
                   /\ frame.events[i].args[1] = CurrentProgram.id
                   /\ frame.events[i].args[2] = CurrentVars.id
            /\ SceneDefines(b.scene) \subseteq CurrentProgram.defines
            /\ IF cls = "FocalGuiding"
               THEN /\ CurrentProgram.id >= b.ids
                    /\ CurrentProgram.desc = b.scene
                    /\ SceneDefinesIn(CurrentProgram.defines) = SceneDefines(b.scene)
                    /\ mTracer.pBindingTable.id >= b.ids
                    /\ mTracer.pBindingTable.scene = b.scene
                    /\ CurrentVars.table = mTracer.pBindingTable.id
               ELSE /\ CurrentProgram.id = 1
                    /\ CurrentProgram.id < a.ids
                    /\ AddDefines(SceneDefines(a.scene), SceneDefines(b.scene))
                           \subseteq CurrentProgram.defines
                    /\ CurrentVars.reflector = CurrentProgram.defines

\* Two different scenes in a row on a raster pass, then a frame.
C3_Witness ==
    /\ TwoScenesThenExecute
    /\ cls = "MyTestPass"
    /\ calls[Len(calls) - 2].scene # calls[Len(calls) - 1].scene
    /\ Draws # {}

\* ---- C4
\* C4: the default DensityNode given to the density buffer as initial data has
\* child index 0 in every child, weight 0.5 in children 0 to 6 and weight 1.0
\* in child 7 (weights in tenths).
C4_DefaultNodeWeights ==
    mNodes.id # 0 =>
        /\ Len(mNodes.data) = 1
        /\ Len(mNodes.data[1]) = 8
        /\ \A c \in 1..8 :
               /\ mNodes.data[1][c].childIndex = 0
               /\ mNodes.data[1][c].density = IF c = 8 THEN 10 ELSE 5

\* ---- C5
\* C5: a FocalGuiding execute with a scene whose updates include GeometryChanged
\* fails with a runtime error before any vars are created, before 'gNodes' is
\* written to the dictionary, before any resource is bound and before any
\* dispatch.
C5_GeometryChangeFailsFast ==
    (cls = "FocalGuiding" /\ ExecutedWithScene /\ frame.rd.geometryChanged) =>
        /\ frame.result = "error"
        /\ \E i \in 1..Len(frame.events) :
               frame.events[i] = Event("throw", "RuntimeError", <<>>)
        /\ EventsOfKind({"createVars", "createStructuredBuffer", "dictWrite", "bind",
                         "bindBuffer", "setConst", "raytrace", "rasterize"}) = {}

\* The failing frame is the first one after setScene: no vars exist yet.
C5_Witness ==
    /\ cls = "FocalGuiding"
    /\ ExecutedWithScene
    /\ frame.rd.geometryChanged
    /\ mTracer.pVars = NullVars
    /\ mTracer.pProgram # NullProgram

\* ---- C6
\* C6: with the flag set, the buffer handle present and a record count of 0,
\* generateRaysGeometry runs its loop body 0 times, indexes no element of the
\* decoded vector, produces no geometry and the frame completes.
C6_ZeroRecordsDecoded ==
    (/\ cls = "GuidedRayViz"
     /\ ExecutedWithScene
     /\ frame.rd.gComputeRays
     /\ frame.rd.gGuidedRays # 0
     /\ frame.rd.gGuidedRaysSize = 0) =>
        /\ EventsOfKind({"rayLine"}) = {}
        /\ frame.result = "ok"
        /\ \A i \in EventsOfKind({"getElements"}) : frame.events[i].args = <<0, 0>>
        /\ Cardinality(Draws) = 1

C6_Witness ==
    /\ cls = "GuidedRayViz"
    /\ ExecutedWithScene
    /\ frame.rd.gComputeRays
    /\ frame.rd.gGuidedRays # 0
    /\ frame.rd.gGuidedRaysSize = 0
    /\ EventsOfKind({"getElements"}) # {}
    /\ mGuidedRaysSize = 0

\* ---- C7
\* Records decoded in the frame, all of them before the draw call.
DecodedBeforeDraw(n) ==
    /\ Cardinality(EventsOfKind({"rayLine"})) = n
    /\ \A i \in EventsOfKind({"rayLine", "getElements"}) : \A d \in Draws : i < d

NothingDecoded == EventsOfKind({"rayLine", "getElements"}) = {}

GenerateInputsPresent == frame.rd.gComputeRays /\ frame.rd.gGuidedRays # 0

\* C7 as stated: in a GuidedRayViz execute with a scene, if the flag is set and
\* the handle is non-null exactly 'gGuidedRaysSize' records are decoded before
\* the draw call; otherwise no records are decoded and no draw call is issued.
C7_DecodeOrNoDraw ==
    (cls = "GuidedRayViz" /\ ExecutedWithScene) =>
        /\ GenerateInputsPresent => DecodedBeforeDraw(frame.rd.gGuidedRaysSize)
        /\ ~GenerateInputsPresent => (NothingDecoded /\ Draws = {})

\* C7 amended: in a GuidedRayViz execute with a scene, if the flag is set and
\* the handle is non-null exactly 'gGuidedRaysSize' records are decoded before
\* the draw call; otherwise no records are decoded.  In both cases the pass
\* issues its one rasterize call of the scene.
C7_DecodeThenAlwaysDraw ==
    (cls = "GuidedRayViz" /\ ExecutedWithScene) =>
        /\ GenerateInputsPresent => DecodedBeforeDraw(frame.rd.gGuidedRaysSize)
        /\ ~GenerateInputsPresent => NothingDecoded
        /\ Cardinality(Draws) = 1
        /\ \A d \in Draws : frame.events[d].kind = "rasterize"

\* The flag is set, the handle is null and the count is not 0: nothing decoded.
C7_Witness ==
    /\ cls = "GuidedRayViz"
    /\ ExecutedWithScene
    /\ frame.rd.gComputeRays
    /\ frame.rd.gGuidedRays = 0
    /\ frame.rd.gGuidedRaysSize > 0
    /\ Draws # {}

\* ---- C8
\* C8: every execute that runs with a scene and does not fail issues exactly one
\* draw or dispatch call: one raytrace in FocalGuiding, with the frame's default
\* texture dimensions and depth 1, one rasterize in the raster passes; the call
\* comes after the frame's outputs were bound or cleared and the per-frame
\* constants written.
C8_OneDrawAfterSetup ==
    (ExecutedWithScene /\ frame.result = "ok") =>
        /\ Cardinality(Draws) = 1
        /\ \A d \in Draws :
               /\ \A i \in EventsOfKind(SetupKinds) : i < d
               /\ EventsOfKind({"setConst"}) # {}
               /\ IF cls = "FocalGuiding"
                  THEN /\ frame.events[d].kind = "raytrace"
                       /\ SubSeq(frame.events[d].args, 3, 5)
                              = <<frame.rd.dimX, frame.rd.dimY, 1>>
                       /\ \E i \in EventsOfKind({"bind"}) :
                              frame.events[i].name = "gOutputColor"
                  ELSE /\ frame.events[d].kind = "rasterize"
                       /\ Cleared("output")

\* A dispatch on a frame that is wider than high.
C8_Witness ==
    /\ cls = "FocalGuiding"
    /\ ExecutedWithScene
    /\ frame.result = "ok"
    /\ frame.rd.dimX > frame.rd.dimY
    /\ Draws # {}

\* ---- C9
\* C9: the density grid buffer is allocated exactly once: once mNodes holds a
\* buffer, no later setScene or execute replaces it.
C9_NodesAllocatedOnce == [][mNodes.id # 0 => mNodes' = mNodes]_vars

\* ---- C10
\* C10: in every state of FocalGuiding the program and the binding table are
\* non-null exactly when the scene is non-null; the vars, when non-null, were
\* created from the current program and binding table after the setScene that
\* created them; every setScene leaves the vars null and a program and table
\* created by that call; and a dispatch uses the current program and vars.
C10_TracerBundleConsistent ==
    cls = "FocalGuiding" =>
        /\ mTracer.pProgram.id # 0 <=> mpScene # NullScene
        /\ mTracer.pBindingTable.id # 0 <=> mpScene # NullScene
        /\ mTracer.pVars.id # 0 =>
               /\ mTracer.pVars.program = mTracer.pProgram.id
               /\ mTracer.pVars.table = mTracer.pBindingTable.id
               /\ mTracer.pVars.id > mTracer.pProgram.id
               /\ mTracer.pVars.id > mTracer.pBindingTable.id
        /\ frame.op = "setScene" =>
               /\ mTracer.pVars = NullVars
               /\ mpScene # NullScene =>
                      /\ mTracer.pProgram.id >= calls[Len(calls)].ids
                      /\ mTracer.pBindingTable.id >= calls[Len(calls)].ids
                      /\ mTracer.pProgram.desc = mpScene
                      /\ mTracer.pBindingTable.scene = mpScene
        /\ \A d \in EventsOfKind({"raytrace"}) :
               /\ mTracer.pVars.id # 0
               /\ frame.events[d].args[1] = mTracer.pProgram.id
               /\ frame.events[d].args[2] = mTracer.pVars.id

\* A frame, a change of scene, and a frame on the second scene's vars.
C10_Witness ==
    /\ cls = "FocalGuiding"
    /\ Len(calls) >= 3
    /\ calls[Len(calls) - 2].op = "execute" /\ calls[Len(calls) - 2].scene # NullScene
    /\ calls[Len(calls) - 1].op = "setScene" /\ calls[Len(calls) - 1].scene # NullScene
    /\ calls[Len(calls)].op = "execute"
    /\ EventsOfKind({"raytrace"}) # {}
    /\ mNodes.id > 4

====
